---- MODULE Spec2Model ----
(***************************************************************************)
(* prefix-search (src/main.rs): main and walk_dir as a state machine.      *)
(*                                                                         *)
(* A string is a sequence of characters (one-character TLA+ strings).      *)
(* A path is the sequence of directory entries leading to it, so that the  *)
(* path of an entry is the path of its directory extended by the entry     *)
(* (DirEntry::path), and its base name is the name of its last entry.      *)
(***************************************************************************)
EXTENDS Integers, Sequences, FiniteSets, TLC

VARIABLES
    kind,               \* the file system: what each entry is during the runs
    config,             \* Config.categories: category name -> [dirs |-> ...]
    search_category,    \* Opts.search_category
    search_terms,       \* Opts.search_terms as given on the command line
    question,           \* Opts.question (-q)
    pc,                 \* position of main
    quiet, use_failed_exit_code_if_no_match, only_first_match,
    terms,              \* main's sorted term list
    seen_terms,         \* main's HashSet of terms that matched
    n_found,            \* main's match counter
    dir_idx,            \* position of `for dir in &category.dirs`
    paths,              \* the Vec returned by the current walk_dir(dir)
    path_idx,           \* position of `for path in paths`
    cur,                \* locals of the last iteration of the path loop
    stack,              \* the activation records of walk_dir, innermost last
    stdout, stderr, log,\* what the run wrote
    exit_code,          \* process exit status, NoExit while running
    history             \* outcomes of the earlier runs over the same inputs

vars == <<kind, config, search_category, search_terms, question, pc, quiet,
          use_failed_exit_code_if_no_match, only_first_match, terms,
          seen_terms, n_found, dir_idx, paths, path_idx, cur, stack,
          stdout, stderr, log, exit_code, history>>

inputs == <<kind, config, search_category, search_terms>>

(***************************************************************************)
(* Bounds.                                                                 *)
(***************************************************************************)
MaxTerms == 2     \* longest term list on the command line
MaxDirs == 2      \* longest directory list of the category
MaxDepth == 3     \* deepest walk_dir recursion followed (symlink cycles)
MaxRuns == 2      \* runs of the program over the same inputs

NoExit == -1

(***************************************************************************)
(* Strings.                                                                *)
(***************************************************************************)
Invalid == "\\xFF"       \* a byte that is not valid UTF-8 (file names only)
Replacement == "U+FFFD"  \* the replacement character

\* str::len is the length in bytes of the UTF-8 encoding.
Utf8Width(c) == IF c = Replacement THEN 3 ELSE 1

RECURSIVE ByteLen(_)
ByteLen(s) == IF s = <<>> THEN 0 ELSE Utf8Width(Head(s)) + ByteLen(Tail(s))

\* OsStr::to_string_lossy
ToStringLossy(s) == [i \in 1..Len(s) |-> IF s[i] = Invalid THEN Replacement ELSE s[i]]

\* str::starts_with
StartsWith(s, t) == Len(t) <= Len(s) /\ SubSeq(s, 1, Len(t)) = t

(***************************************************************************)
(* The file system.  Two directories a category can name, /a and /b.  /a   *)
(* holds an entry "ab" of varying kind (a directory of one file when it is *)
(* one), a file whose name is not valid UTF-8, and a subdirectory "c".     *)
(***************************************************************************)
RootA == "/a"
RootB == "/b"
EntAb == "/a/ab"
EntAbc == "/a/ab/abc"
EntB == "/a/b?"
EntC == "/a/c"
EntCa == "/a/c/ca"
EntA == "/b/a"

Nodes == {RootA, RootB, EntAb, EntAbc, EntB, EntC, EntCa, EntA}

Name == [n \in Nodes |->
           CASE n = RootA -> <<"a">>
             [] n = RootB -> <<"b">>
             [] n = EntAb -> <<"a", "b">>
             [] n = EntAbc -> <<"a", "b", "c">>
             [] n = EntB -> <<"b", Invalid>>
             [] n = EntC -> <<"c">>
             [] n = EntCa -> <<"c", "a">>
             [] n = EntA -> <<"a">>]

\* What fs::read_dir yields for a directory, in iteration order.
Entries == [n \in Nodes |->
              CASE n = RootA -> <<EntAb, EntB, EntC>>
                [] n = RootB -> <<EntA>>
                [] n = EntAb -> <<EntAbc>>
                [] n = EntC -> <<EntCa>>
                [] OTHER -> <<>>]

\* "file": not a directory; "dir": readable directory; "unreadable": a
\* directory read_dir fails on; "enterr": the iterator yields Err for the
\* entry; "link": a symbolic link to /a.
Kinds == {"file", "dir", "unreadable", "enterr", "link"}

Resolve(n) == IF kind[n] = "link" THEN RootA ELSE n

Last(p) == p[Len(p)]

\* fs::read_dir(path).is_ok()
ReadDirOk(p) == kind[Resolve(Last(p))] = "dir"

ReadDir(p) == Entries[Resolve(Last(p))]

\* Path::is_dir
IsDir(p) == kind[Last(p)] \in {"dir", "unreadable", "link"}

\* Path::file_name, lossily converted (walk_dir never yields a path ending in ..)
FileName(p) == ToStringLossy(Name[Last(p)])

(***************************************************************************)
(* main: pure parts.                                                       *)
(***************************************************************************)
\* Vec::sort_by(|a, b| b.len().cmp(&a.len())) is a stable sort: insert each
\* term, in order, behind the terms that are at least as long.
RECURSIVE InsertByLen(_, _)
InsertByLen(t, s) ==
    IF s = <<>> THEN <<t>>
    ELSE IF ByteLen(Head(s)) >= ByteLen(t) THEN <<Head(s)>> \o InsertByLen(t, Tail(s))
    ELSE <<t>> \o s

RECURSIVE SortFrom(_, _)
SortFrom(ts, acc) ==
    IF ts = <<>> THEN acc ELSE SortFrom(Tail(ts), InsertByLen(Head(ts), acc))

Unsorted(ts) == ts

SortTerms(ts) == SortFrom(ts, <<>>)

\* The lines 92-98 write: the file name split at the end of the term, and the path.
MatchLine(filename, term, path) ==
    [line |-> "match",
     matched |-> SubSeq(filename, 1, Len(term)),
     unmatched |-> SubSeq(filename, Len(term) + 1, Len(filename)),
     path |-> path]

PrintAlways(q, filename, term, path) == <<MatchLine(filename, term, path)>>

PrintMatch(q, filename, term, path) ==
    IF ~q THEN <<MatchLine(filename, term, path)>> ELSE <<>>

\* The body of `if filename.starts_with(term)`, up to its break.
Hit(st, q, filename, term, path) ==
    [n_found |-> st.n_found + 1,
     seen_terms |-> st.seen_terms \cup {term},
     out |-> st.out \o PrintMatch(q, filename, term, path),
     hit |-> <<term>>]

RECURSIVE TermLoopNoBreak(_, _, _, _, _)
TermLoopNoBreak(ts, q, filename, path, st) ==
    IF ts = <<>> THEN st
    ELSE IF StartsWith(filename, Head(ts))
         THEN TermLoopNoBreak(Tail(ts), q, filename, path,
                              Hit(st, q, filename, Head(ts), path))
         ELSE TermLoopNoBreak(Tail(ts), q, filename, path, st)

\* `for term in &terms { if filename.starts_with(term) { ...; break; } }`
RECURSIVE TermLoop(_, _, _, _, _)
TermLoop(ts, q, filename, path, st) ==
    IF ts = <<>> THEN st
    ELSE IF StartsWith(filename, Head(ts))
         THEN Hit(st, q, filename, Head(ts), path)
         ELSE TermLoop(Tail(ts), q, filename, path, st)

BreakAlways(first, n) == first

\* `if only_first_match && n_found > 0 { break; }`
BreakAfter(first, n) == first /\ n > 0

UnseenAll(ts, seen) == {ts[i] : i \in 1..Len(ts)}

\* terms.into_iter().filter(|term| !seen_terms.contains(term)).collect::<HashSet<_>>()
Unseen(ts, seen) == {ts[i] : i \in {j \in 1..Len(ts) : ts[j] \notin seen}}

\* Lines 113-118.
SummaryLines(q, n, unseen) ==
    IF q THEN <<>>
    ELSE <<[line |-> "found", n |-> n]>>
         \o (IF unseen # {} THEN <<[line |-> "unmet", terms |-> unseen]>> ELSE <<>>)

ExitZero(flag, n) == 0

\* Lines 120-128: exit(0) / exit(1) under -q, otherwise main returns Ok(()).
ExitStatus(flag, n) == IF flag THEN (IF n > 0 THEN 0 ELSE 1) ELSE 0

\* Line 53.
UsageLine(cfg) == [line |-> "usage", categories |-> DOMAIN cfg]

UsageInstead(cfg, cat) == UsageLine(cfg)

\* main returns Err(Error::CategoryNotFound(cat)); the runtime prints it and
\* the process ends with status 1.
CategoryNotFound(cfg, cat) == [line |-> "error", error |-> "Search category not found", arg |-> cat]

(***************************************************************************)
(* walk_dir: pure parts.  A frame is one activation: the directory, the    *)
(* position of its read_dir iterator and the local Vec `paths`.            *)
(***************************************************************************)
Frame(dir) == [dir |-> dir, idx |-> 1, paths |-> <<>>]

Warn(dir) == [level |-> "warn", dir |-> dir]

BreakOnErr(f) == [f EXCEPT !.idx = Len(ReadDir(f.dir)) + 1]

StuckOnErr(f) == f

\* `Err(err) => { log::warn!(...); continue; }`
SkipEntry(f) == [f EXCEPT !.idx = @ + 1]

\* paths.push(path)
PushPath(f, p) == [f EXCEPT !.paths = Append(@, p), !.idx = @ + 1]

\* paths.extend(walk_dir(&path))
ExtendPaths(f, result) == [f EXCEPT !.paths = @ \o result, !.idx = @ + 1]

Top == stack[Len(stack)]

Caller == stack[Len(stack) - 1]

(***************************************************************************)
(* The inputs of a run.                                                    *)
(***************************************************************************)
TermSet == {<<>>, <<"a">>, <<"a", "b">>, <<"b", Replacement>>}

DirSet == {<<RootA>>, <<RootB>>, <<RootA, EntAb>>}

Categories == {"docs", "music"}

SeqsUpTo(S, n) == UNION {[1..k -> S] : k \in 0..n}

FileSystems ==
    {k \in [Nodes -> Kinds] :
        /\ \A n \in {RootA, RootB, EntC} : k[n] = "dir"
        /\ \A n \in {EntAbc, EntB, EntCa, EntA} : k[n] = "file"}

NoCur == [path |-> <<>>, filename |-> <<>>, hit |-> <<>>]

\* The state of a process that has not run yet.
Fresh ==
    /\ pc = "parse"
    /\ quiet = FALSE
    /\ use_failed_exit_code_if_no_match = FALSE
    /\ only_first_match = FALSE
    /\ terms = <<>>
    /\ seen_terms = {}
    /\ n_found = 0
    /\ dir_idx = 0
    /\ paths = <<>>
    /\ path_idx = 0
    /\ cur = NoCur
    /\ stack = <<>>
    /\ stdout = <<>>
    /\ stderr = <<>>
    /\ log = <<>>
    /\ exit_code = NoExit

\* A first run, with its terms drawn from T.
InitWith(T) ==
    /\ kind \in FileSystems
    /\ config \in {[c \in {"docs"} |-> [dirs |-> d]] : d \in SeqsUpTo(DirSet, MaxDirs)}
    /\ search_category \in Categories
    /\ search_terms \in SeqsUpTo(T, MaxTerms)
    /\ question \in BOOLEAN
    /\ history = <<>>
    /\ Fresh

Init == InitWith(TermSet)

\* The runs whose end is checked: every file system, directory list and
\* flag, with terms that match some of the files and not the others.
InitFair == InitWith({<<"a", "b">>, <<"b", Replacement>>})

category == config[search_category]

(***************************************************************************)
(* main, lines 46-59: the arguments are parsed; clap rejects a command     *)
(* line without search terms.                                              *)
(***************************************************************************)
ParseArgs ==
    /\ pc = "parse"
    /\ IF search_terms = <<>>
       THEN /\ stderr' = Append(stderr, UsageLine(config))
            /\ exit_code' = 1
            /\ pc' = "exited"
            /\ UNCHANGED <<quiet, use_failed_exit_code_if_no_match, only_first_match>>
       ELSE /\ quiet' = question
            /\ use_failed_exit_code_if_no_match' = question
            /\ only_first_match' = question
            /\ pc' = "lookup"
            /\ UNCHANGED <<stderr, exit_code>>
    /\ UNCHANGED <<inputs, question, terms, seen_terms, n_found, dir_idx, paths,
                   path_idx, cur, stack, stdout, log, history>>

(***************************************************************************)
(* main, lines 61-77.                                                      *)
(***************************************************************************)
LookupCategory ==
    /\ pc = "lookup"
    /\ IF search_category \notin DOMAIN config
       THEN /\ stderr' = Append(stderr, CategoryNotFound(config, search_category))
            /\ exit_code' = 1
            /\ pc' = "exited"
            /\ UNCHANGED <<terms, seen_terms, n_found, dir_idx>>
       ELSE /\ seen_terms' = {}
            /\ terms' = SortTerms(search_terms)
            /\ n_found' = 0
            /\ dir_idx' = 1
            /\ pc' = "dirs"
            /\ UNCHANGED <<stderr, exit_code>>
    /\ UNCHANGED <<inputs, question, quiet, use_failed_exit_code_if_no_match,
                   only_first_match, paths, path_idx, cur, stack, stdout, log, history>>

(***************************************************************************)
(* main, lines 79-81: the next directory of the category, and the call of  *)
(* walk_dir with its read_dir (lines 151-159).                             *)
(***************************************************************************)
NextDir ==
    /\ pc = "dirs"
    /\ dir_idx <= Len(category.dirs)
    /\ LET dir == category.dirs[dir_idx]
           searching == Append(log, [level |-> "debug", dir |-> dir])
       IN IF ReadDirOk(dir)
          THEN /\ stack' = <<Frame(dir)>>
               /\ log' = searching
               /\ pc' = "walk"
               /\ UNCHANGED <<paths, path_idx>>
          ELSE /\ log' = Append(searching, Warn(dir))
               /\ paths' = <<>>
               /\ path_idx' = 1
               /\ pc' = "paths"
               /\ UNCHANGED stack
    /\ UNCHANGED <<inputs, question, quiet, use_failed_exit_code_if_no_match,
                   only_first_match, terms, seen_terms, n_found, dir_idx, cur,
                   stdout, stderr, exit_code, history>>

DirsDone ==
    /\ pc = "dirs"
    /\ dir_idx > Len(category.dirs)
    /\ pc' = "summary"
    /\ UNCHANGED <<inputs, question, quiet, use_failed_exit_code_if_no_match,
                   only_first_match, terms, seen_terms, n_found, dir_idx, paths,
                   path_idx, cur, stack, stdout, stderr, log, exit_code, history>>

(***************************************************************************)
(* walk_dir, lines 160-174: one entry of the innermost directory.          *)
(***************************************************************************)
WalkEntry ==
    /\ pc = "walk"
    /\ Top.idx <= Len(ReadDir(Top.dir))
    /\ LET e == ReadDir(Top.dir)[Top.idx]
           path == Append(Top.dir, e)
           d == Len(stack)
       IN CASE kind[e] = "enterr" ->
                 /\ stack' = [stack EXCEPT ![d] = SkipEntry(@)]
                 /\ log' = Append(log, Warn(Top.dir))
            [] kind[e] # "enterr" /\ IsDir(path) /\ ReadDirOk(path) ->
                 /\ d < MaxDepth
                 /\ stack' = Append(stack, Frame(path))
                 /\ UNCHANGED log
            [] kind[e] # "enterr" /\ IsDir(path) /\ ~ReadDirOk(path) ->
                 /\ stack' = [stack EXCEPT ![d] = ExtendPaths(@, <<>>)]
                 /\ log' = Append(log, Warn(path))
            [] OTHER ->
                 /\ stack' = [stack EXCEPT ![d] = PushPath(@, path)]
                 /\ UNCHANGED log
    /\ UNCHANGED <<inputs, question, pc, quiet, use_failed_exit_code_if_no_match,
                   only_first_match, terms, seen_terms, n_found, dir_idx, paths,
                   path_idx, cur, stdout, stderr, exit_code, history>>

(***************************************************************************)
(* walk_dir, line 175: the iterator is exhausted and `paths` is returned,  *)
(* to the walk_dir that called (line 170) or to main (lines 81-83).        *)
(***************************************************************************)
WalkReturn ==
    /\ pc = "walk"
    /\ Top.idx > Len(ReadDir(Top.dir))
    /\ IF Len(stack) = 1
       THEN /\ paths' = Top.paths
            /\ path_idx' = 1
            /\ stack' = <<>>
            /\ pc' = "paths"
       ELSE /\ stack' = [i \in 1..(Len(stack) - 1) |->
                            IF i = Len(stack) - 1
                            THEN ExtendPaths(Caller, Top.paths) ELSE stack[i]]
            /\ UNCHANGED <<paths, path_idx, pc>>
    /\ UNCHANGED <<inputs, question, quiet, use_failed_exit_code_if_no_match,
                   only_first_match, terms, seen_terms, n_found, dir_idx, cur,
                   stdout, stderr, log, exit_code, history>>

(***************************************************************************)
(* main, lines 83-109: one path of the walk.                               *)
(***************************************************************************)
ExaminePath ==
    /\ pc = "paths"
    /\ path_idx <= Len(paths)
    /\ LET path == paths[path_idx]
           filename == FileName(path)
           st == TermLoop(terms, quiet, filename, path,
                          [n_found |-> n_found, seen_terms |-> seen_terms,
                           out |-> stdout, hit |-> <<>>])
       IN /\ n_found' = st.n_found
          /\ seen_terms' = st.seen_terms
          /\ stdout' = st.out
          /\ cur' = [path |-> path, filename |-> filename, hit |-> st.hit]
          /\ IF BreakAfter(only_first_match, st.n_found)
             THEN /\ dir_idx' = dir_idx + 1
                  /\ pc' = "dirs"
                  /\ UNCHANGED path_idx
             ELSE /\ path_idx' = path_idx + 1
                  /\ UNCHANGED <<dir_idx, pc>>
    /\ UNCHANGED <<inputs, question, quiet, use_failed_exit_code_if_no_match,
                   only_first_match, terms, paths, stack, stderr, log,
                   exit_code, history>>

PathsDone ==
    /\ pc = "paths"
    /\ path_idx > Len(paths)
    /\ dir_idx' = dir_idx + 1
    /\ pc' = "dirs"
    /\ UNCHANGED <<inputs, question, quiet, use_failed_exit_code_if_no_match,
                   only_first_match, terms, seen_terms, n_found, paths, path_idx,
                   cur, stack, stdout, stderr, log, exit_code, history>>

(***************************************************************************)
(* main, lines 111-118.                                                    *)
(***************************************************************************)
Summary ==
    /\ pc = "summary"
    /\ stdout' = stdout \o SummaryLines(quiet, n_found, Unseen(terms, seen_terms))
    /\ pc' = "exit"
    /\ UNCHANGED <<inputs, question, quiet, use_failed_exit_code_if_no_match,
                   only_first_match, terms, seen_terms, n_found, dir_idx, paths,
                   path_idx, cur, stack, stderr, log, exit_code, history>>

(***************************************************************************)
(* main, lines 120-128.                                                    *)
(***************************************************************************)
Exit ==
    /\ pc = "exit"
    /\ exit_code' = ExitStatus(use_failed_exit_code_if_no_match, n_found)
    /\ pc' = "exited"
    /\ UNCHANGED <<inputs, question, quiet, use_failed_exit_code_if_no_match,
                   only_first_match, terms, seen_terms, n_found, dir_idx, paths,
                   path_idx, cur, stack, stdout, stderr, log, history>>

(***************************************************************************)
(* The program is run again on the same configuration, file system and     *)
(* terms with the -q flag switched; the finished run is kept for           *)
(* comparison.                                                             *)
(***************************************************************************)
Outcome ==
    [question |-> question, n_found |-> n_found, exit_code |-> exit_code,
     stdout |-> stdout, stderr |-> stderr]

Rerun ==
    /\ pc = "exited"
    /\ Len(history) + 1 < MaxRuns
    /\ history' = Append(history, Outcome)
    /\ question' = ~question
    /\ pc' = "parse"
    /\ quiet' = FALSE
    /\ use_failed_exit_code_if_no_match' = FALSE
    /\ only_first_match' = FALSE
    /\ terms' = <<>>
    /\ seen_terms' = {}
    /\ n_found' = 0
    /\ dir_idx' = 0
    /\ paths' = <<>>
    /\ path_idx' = 0
    /\ cur' = NoCur
    /\ stack' = <<>>
    /\ stdout' = <<>>
    /\ stderr' = <<>>
    /\ log' = <<>>
    /\ exit_code' = NoExit
    /\ UNCHANGED inputs

Step ==
    \/ ParseArgs
    \/ LookupCategory
    \/ NextDir
    \/ DirsDone
    \/ WalkEntry
    \/ WalkReturn
    \/ ExaminePath
    \/ PathsDone
    \/ Summary
    \/ Exit

Next == Step \/ Rerun

Spec == Init /\ [][Next]_vars

\* One run: the process is single-threaded and takes every step of main
\* that is enabled.
FairSpec == InitFair /\ [][Step]_vars /\ WF_vars(Step)

(***************************************************************************)
(* Vocabulary of the properties.                                           *)
(***************************************************************************)
Range(s) == {s[i] : i \in 1..Len(s)}

Fuel == Cardinality(Nodes)

\* The non-directory paths reachable from p by descent through the
\* directories that can be read, skipping the entries that cannot be obtained.
RECURSIVE FilesUnder(_, _)
FilesUnder(p, fuel) ==
    IF fuel = 0 \/ ~ReadDirOk(p) THEN {}
    ELSE UNION {IF kind[e] = "enterr" THEN {}
                ELSE IF IsDir(Append(p, e)) THEN FilesUnder(Append(p, e), fuel - 1)
                ELSE {Append(p, e)} : e \in Range(ReadDir(p))}

\* p heads a chain of readable directories longer than the number of
\* entries of the file system: a symlink cycle.
RECURSIVE Bottomless(_, _)
Bottomless(p, fuel) ==
    /\ ReadDirOk(p)
    /\ \/ fuel = 0
       \/ \E e \in Range(ReadDir(p)) :
              /\ kind[e] # "enterr"
              /\ IsDir(Append(p, e))
              /\ Bottomless(Append(p, e), fuel - 1)

KnownCategory == search_category \in DOMAIN config

\* The run got past the argument parser and the category lookup.
Searching == search_terms # <<>> /\ KnownCategory

Prefixes(filename) == {t \in Range(search_terms) : StartsWith(filename, t)}

Matching(files) == {p \in files : Prefixes(FileName(p)) # {}}

Lines(out, what) == {i \in 1..Len(out) : out[i].line = what}

\* The run wrote its summary and nothing went wrong before.
Summarised == pc = "exit" \/ (pc = "exited" /\ Searching)

(***************************************************************************)
(* C1: for every file the path loop examines, a term is recorded as        *)
(* matching iff some given term is a prefix of the file's base name, and   *)
(* the recorded term is then the longest of the terms that are a prefix.   *)
(***************************************************************************)
LongestPrefixWins ==
    cur # NoCur =>
        LET pre == Prefixes(FileName(cur.path))
        IN /\ (cur.hit # <<>>) <=> (pre # {})
           /\ cur.hit # <<>> =>
                 /\ cur.hit[1] \in pre
                 /\ \A t \in pre : Len(t) <= Len(cur.hit[1]) /\ ByteLen(t) <= ByteLen(cur.hit[1])

\* Terms "a", "ab" in that order and file "abc": "ab" is recorded.
LongestPrefixWinsWitness ==
    /\ search_terms = << <<"a">>, <<"a", "b">> >>
    /\ cur # NoCur
    /\ FileName(cur.path) = <<"a", "b", "c">>
    /\ cur.hit = << <<"a", "b">> >>

(***************************************************************************)
(* C2: over the same configuration, directories and terms, the run with    *)
(* -q exits with 0 iff the run without -q reports a positive count.        *)
(***************************************************************************)
FoundPositive(out) == \E i \in Lines(out, "found") : out[i].n > 0

QuietExitIffFound ==
    (pc = "exited" /\ Searching) =>
        \A i \in 1..Len(history) :
            history[i].question # question =>
                LET q == IF question THEN Outcome ELSE history[i]
                    v == IF question THEN history[i] ELSE Outcome
                IN /\ (q.exit_code = 0) <=> (v.n_found > 0)
                   /\ (q.exit_code = 0) <=> FoundPositive(v.stdout)

\* A quiet run over two directories that ends with 0 after the run without
\* -q counted several files.
QuietExitIffFoundWitness ==
    /\ pc = "exited" /\ Searching /\ question
    /\ Len(category.dirs) = 2
    /\ exit_code = 0
    /\ history # <<>> /\ history[1].n_found > 1

(***************************************************************************)
(* C3: the run without -q prints the line of unmet terms iff some given    *)
(* term matched no file, and the line then holds exactly the given terms   *)
(* that are not the matched prefix of any match line, each once.           *)
(***************************************************************************)
MatchedTerms(out) == {out[i].matched : i \in Lines(out, "match")}

UnmetIsDifference ==
    (Summarised /\ ~question) =>
        LET diff == Range(search_terms) \ MatchedTerms(stdout)
            unmet == Lines(stdout, "unmet")
        IN /\ (unmet # {}) <=> (diff # {})
           /\ Cardinality(unmet) <= 1
           /\ \A i \in unmet : stdout[i].terms = diff /\ i = Len(stdout)

\* A term given twice that matched nothing: the line names it once.
UnmetIsDifferenceWitness ==
    /\ Summarised /\ ~question
    /\ Len(search_terms) = 2 /\ search_terms[1] = search_terms[2]
    /\ Lines(stdout, "unmet") # {}
    /\ stdout[Len(stdout)].terms = {search_terms[1]}

(***************************************************************************)
(* C4: the exit code is 1 after a usage error or an unknown category;      *)
(* under -q it is 0 when some file under the category's directories starts *)
(* with some term and 1 otherwise; without -q it is 0.                     *)
(***************************************************************************)
AnyMatch ==
    \E i \in 1..Len(category.dirs) : Matching(FilesUnder(category.dirs[i], Fuel)) # {}

WalkIsComplete ==
    /\ pc = "paths" =>
          /\ Range(paths) = FilesUnder(category.dirs[dir_idx], Fuel)
          /\ Cardinality(Range(paths)) = Len(paths)
    /\ (pc = "walk" /\ ~Bottomless(stack[1].dir, Fuel)) => ENABLED (WalkEntry \/ WalkReturn)

\* /a was walked with /a/ab unreadable, or not obtained: the file next to
\* it and the file of the sibling directory are returned.
WalkIsCompleteWitness ==
    /\ pc = "paths"
    /\ category.dirs[dir_idx] = <<RootA>>
    /\ kind[EntAb] \in {"unreadable", "enterr"}
    /\ paths = << <<RootA, EntB>>, <<RootA, EntC, EntCa>> >>

(***************************************************************************)
(* C6: under -q nothing is ever written to stdout, and a run under -q in   *)
(* which no file matches ends with exit code 1.                            *)
(***************************************************************************)
QuietIsSilent ==
    question =>
        /\ stdout = <<>>
        /\ (pc = "exited" /\ Searching /\ ~AnyMatch) => exit_code = 1

\* A quiet run that found a file and finished.
QuietIsSilentWitness ==
    /\ question /\ pc = "exited" /\ Searching
    /\ n_found > 0
    /\ stdout = <<>>

(***************************************************************************)
(* C7, as stated: a run with an unknown category prints the usage message. *)
(***************************************************************************)
UnknownCategoryPrintsUsage ==
    (pc = "exited" /\ search_terms # <<>> /\ ~KnownCategory) =>
        Lines(stderr, "usage") # {}

(***************************************************************************)
(* C7, amended: a run with an unknown category is fatal: the error "Search *)
(* category not found" is reported and not the usage message, the exit     *)
(* code is 1, no directory is walked, nothing is written to stdout, and    *)
(* n_found and seen_terms are never updated.                               *)
(***************************************************************************)
UnknownCategoryIsFatal ==
    (search_terms # <<>> /\ ~KnownCategory) =>
        /\ pc \in {"parse", "lookup", "exited"}
        /\ log = <<>> /\ stack = <<>> /\ paths = <<>> /\ dir_idx = 0
        /\ stdout = <<>>
        /\ n_found = 0 /\ seen_terms = {}
        /\ pc = "exited" =>
              /\ stderr = <<[line |-> "error", error |-> "Search category not found",
                             arg |-> search_category]>>
              /\ exit_code = 1

UnknownCategoryIsFatalWitness ==
    /\ pc = "exited" /\ search_terms # <<>> /\ ~KnownCategory
    /\ Len(config["docs"].dirs) > 0
    /\ Len(stderr) = 1

(***************************************************************************)
(* C8, as stated: at the end of a run without -q, n_found is the number of *)
(* files under the category's directories whose base name starts with a    *)
(* term.                                                                   *)
(***************************************************************************)
FilesOfCategory == UNION {FilesUnder(category.dirs[i], Fuel) : i \in 1..Len(category.dirs)}

RECURSIVE MatchingVisits(_)
MatchingVisits(i) ==
    IF i = 0 THEN 0
    ELSE Cardinality(Matching(FilesUnder(category.dirs[i], Fuel))) + MatchingVisits(i - 1)

OneMatchPerFile ==
    (Summarised /\ ~question) => n_found = Cardinality(Matching(FilesOfCategory))

(***************************************************************************)
(* C8, amended: each examination of a path (one for every configured       *)
(* directory whose walk returns it) adds at most 1 to n_found and at most  *)
(* one term to seen_terms, however many terms are prefixes; at the end of  *)
(* a run without -q, n_found is the number of match lines printed and the  *)
(* sum, over the configured directories, of the number of files under the  *)
(* directory whose base name starts with a term.                           *)
(***************************************************************************)
OneMatchPerVisitEnd ==
    (Summarised /\ ~question) =>
        /\ n_found = MatchingVisits(Len(category.dirs))
        /\ n_found = Cardinality(Lines(stdout, "match"))

OneMatchPerVisitStep ==
    (pc = "paths" /\ pc' # "parse") =>
        /\ n_found' <= n_found + 1
        /\ Cardinality(seen_terms') <= Cardinality(seen_terms) + 1
        /\ Len(stdout') <= Len(stdout) + 1

OneMatchPerVisit == []OneMatchPerVisitEnd /\ [][OneMatchPerVisitStep]_vars

\* /a/ab/abc starts with both terms, is reached from both configured
\* directories, and counts once for each.
OneMatchPerVisitWitness ==
    /\ Summarised /\ ~question
    /\ kind[EntAb] = "dir"
    /\ category.dirs = << <<RootA>>, <<RootA, EntAb>> >>
    /\ search_terms = << <<"a">>, <<"a", "b">> >>
    /\ n_found = 2

(***************************************************************************)
(* C9, as stated: under -q the search stops at the first match: no further *)
(* directory is walked once n_found > 0, and n_found never exceeds 1.      *)
(***************************************************************************)
QuietStopsAtFirstMatch ==
    question =>
        /\ n_found <= 1
        /\ (n_found > 0) => pc \notin {"walk", "paths"}

(***************************************************************************)
(* C10: a run over directories without a symlink cycle reaches its exit;   *)
(* every step of a walk consumes one directory entry or enters or leaves a *)
(* directory, and every step of the path loop consumes one path; the walk  *)
(* of a directory with a symlink cycle never returns.                      *)
(***************************************************************************)
WalkIsFinite ==
    KnownCategory => \A i \in 1..Len(category.dirs) : ~Bottomless(category.dirs[i], Fuel)

WalkProgress ==
    (pc = "walk" /\ pc' = "walk") =>
        \/ Len(stack') = Len(stack) + 1 /\ stack'[Len(stack')].idx = 1
        \/ /\ Len(stack') = Len(stack)
           /\ stack'[Len(stack')].idx = Top.idx + 1
           /\ \A i \in 1..(Len(stack) - 1) : stack'[i] = stack[i]
        \/ /\ Len(stack') = Len(stack) - 1
           /\ stack'[Len(stack')].idx = Caller.idx + 1

PathProgress ==
    (pc = "paths" /\ pc' = "paths") => (path_idx' = path_idx + 1 /\ paths' = paths)

CycleNeverReturns ==
    (pc = "walk" /\ Bottomless(stack[1].dir, Fuel)) => pc' = "walk"

Terminates ==
    /\ (WalkIsFinite /\ pc # "exited") ~> (pc = "exited")
    /\ [][WalkProgress /\ PathProgress /\ CycleNeverReturns]_vars

\* A run over two directories, one of them nested, that reached its end.
TerminatesWitness ==
    /\ pc = "exited" /\ Searching
    /\ kind[EntAb] = "dir"
    /\ Len(category.dirs) = 2
    /\ Len(log) = 2

====
